---- MODULE Spec2Model ----
(***************************************************************************)
(* A state-machine model of the GitLab AI chat client, class GitLabAIChat  *)
(* of gitlab_ai_chat.py: the session fields (thread_id, request_ids,       *)
(* gitlab_version), send_message with its dispatch and its polling loop    *)
(* _poll_for_response, and clear_chat.                                     *)
(*                                                                         *)
(* The client is single threaded.  The only points where the environment   *)
(* acts are the replies to _graphql_request, so every action runs the code *)
(* from one such point to the next: the replies are the actions' inputs.   *)
(* The server is not constrained beyond the shape of a GraphQL reply: any   *)
(* errors list or any data of the selected fields may come back.           *)
(*                                                                         *)
(* A version is text.  Text is modelled as the sequence of its characters  *)
(* ("17.3.0" is <<"1","7",".","3",".","0">>), over the alphabet of digits, *)
(* '.', '-' and letters, so that str.split and int() are computed as       *)
(* Python computes them.  An exception that leaves send_message ends the   *)
(* program: interactive_chat and main catch nothing.                       *)
(*                                                                         *)
(* Spec is the interactive session.  FnSpec applies the pure functions of  *)
(* the client (version_gte, get_gitlab_version, get_chat_mutation, the     *)
(* variables of send_message) to arguments drawn in its initial state.     *)
(***************************************************************************)
EXTENDS Integers, Sequences, FiniteSets, TLC

VARIABLES
    thread_id,       \* self.thread_id
    request_ids,     \* self.request_ids
    gitlab_version,  \* self.gitlab_version (the cache of get_gitlab_version)
    pc,              \* "idle", "dispatched" (mutation in flight), "poll" (in the loop)
    caller,          \* the top-level call running or last returned: send_message / clear_chat
    sent,            \* the mutation request in flight: <<>> or <<[mutation, variables, ..]>>
    reply,           \* the reply to the mutation of the current call: <<>> or <<reply>>
    request_id,      \* argument of _poll_for_response
    poll_query,      \* the query text _poll_for_response chose
    i,               \* loop index of _poll_for_response
    polls,           \* the replies to the polling queries of the current call, in order
    reqs,            \* names of the requests sent during the current top-level call
    returned_at,     \* the return statement that ended the call; None while it runs
    result,          \* value returned by send_message; None while it runs
    clear_ret,       \* value returned by clear_chat; FALSE while it runs
    first_thread,    \* history: the first thread id adopted since the last clear_chat call
    args,            \* FnSpec: the function applied and its arguments; <<>> in Spec
    value            \* FnSpec: <<>>, or <<v>> once the function has returned or raised v

vars == <<thread_id, request_ids, gitlab_version, pc, caller, sent, reply, request_id,
          poll_query, i, polls, reqs, returned_at, result, clear_ret, first_thread,
          args, value>>

session == <<thread_id, request_ids, gitlab_version>>

----------------------------------------------------------------------------
(* Bounds of the model *)

\* no further dispatch succeeds once the history holds this many request ids
MaxHistory == 2

\* _poll_for_response(request_id, max_retries=60, interval=1): the loop is the
\* same for every max_retries; the model runs it with this budget
max_retries == 3

----------------------------------------------------------------------------
(* Values *)

\* Python None / a JSON null / an absent key read with .get()
None == "None"

\* Python truthiness of an optional string
Truthy(x) == x \notin {None, ""}

PLATFORM_ORIGIN == "vs_code_extension"

SPECIAL_MESSAGES == [RESET |-> "/reset", CLEAR |-> "/clear", CLEAN |-> "/clean"]

\* A version is the sequence of its characters; <<>> is no version (None or "")
MINIMUM_PLATFORM_ORIGIN_FIELD_VERSION == <<"1", "7", ".", "3", ".", "0">>
MINIMUM_ADDITIONAL_CONTEXT_FIELD_VERSION == <<"1", "7", ".", "5", ".", "0", "-", "p", "r", "e">>
\* a minimum version of conversationType set as low as that of additionalContext
MINIMUM_CONVERSATION_TYPE_VERSION_lowered == <<"1", "7", ".", "5", ".", "0", "-", "p", "r", "e">>

MINIMUM_CONVERSATION_TYPE_VERSION == <<"1", "7", ".", "1", "0", ".", "0", "-", "p", "r", "e">>

\* what the user types
Messages == {"hello"}

\* values of uuid.uuid4()
Uuids == {"u1"}

ThreadIds == {"t1", "t2"}
RequestIds == {"r1", "r2"}

\* the decimal digits, and the text of a natural number
DigitChars == <<"0", "1", "2", "3", "4", "5", "6", "7", "8", "9">>

RECURSIVE decimal(_)
decimal(n) ==
    IF n < 10 THEN <<DigitChars[n + 1]>>
    ELSE decimal(n \div 10) \o <<DigitChars[(n % 10) + 1]>>

\* suffixes of the patch component: none, and a pre-release
NoSuffix == <<>>
PreSuffix == <<"-", "p", "r", "e">>
Suffixes == {NoSuffix, PreSuffix}

\* the text a server reports for release (major, minor, patch) with a suffix
version_string(release, suffix) ==
    decimal(release[1]) \o <<".">> \o decimal(release[2]) \o <<".">>
    \o decimal(release[3]) \o suffix

\* version texts that are not major.minor.patch: two components, one component,
\* a minor that is no integer, no integer at all, a patch that is no integer
UnparsableVersions ==
    {<<"1", "7", ".", "1", "0">>,
     <<"1", "7", ".", "4">>,
     <<"1", "8">>,
     <<"1", "7", ".", "x", ".", "0">>,
     <<"a", "b", "c">>,
     <<"1", "7", ".", "5", ".", "0", "p", "r", "e">>}

\* versions a server may report in a session: one below all thresholds, one in
\* each tier, and one that is not major.minor.patch
Versions ==
    {version_string(<<17, 2, 9>>, NoSuffix), version_string(<<17, 3, 0>>, NoSuffix),
     version_string(<<17, 9, 1>>, NoSuffix), version_string(<<17, 10, 0>>, PreSuffix),
     <<"1", "7", ".", "1", "0">>}

\* reply of _graphql_request to a version query: {"errors": ...} or the version
\* field of the data (<<>> when null, absent or "")
VersionReplies ==
    {[errors |-> TRUE, version |-> <<>>], [errors |-> FALSE, version |-> <<>>]}
    \cup {[errors |-> FALSE, version |-> v] : v \in Versions}

\* reply to the introspection query: {"errors": ...} or the enumValues names
ConversationTypeReplies ==
    {[errors |-> TRUE, enumValues |-> <<>>],
     [errors |-> FALSE, enumValues |-> <<>>],
     [errors |-> FALSE, enumValues |-> <<"DUO_CHAT_LEGACY", "AGENTIC_CHAT", "DUO_CHAT">>],
     [errors |-> FALSE, enumValues |-> <<"DUO_CHAT_LEGACY", "AGENTIC_CHAT">>],
     [errors |-> FALSE, enumValues |-> <<"DUO_CHAT_LEGACY">>],
     [errors |-> FALSE, enumValues |-> <<"OTHER_CHAT">>]}

\* reply to the chat mutation: {"errors": ...} or data.aiAction with its requestId
\* and threadId (None: null or absent)
DispatchReplies ==
    {[errors |-> TRUE, requestId |-> None, threadId |-> None]}
    \cup [errors : {FALSE}, requestId : {None, ""} \cup RequestIds,
          threadId : {None} \cup ThreadIds]
    \cup [errors : {FALSE}, requestId : RequestIds, threadId : {""}]

\* nodes of data.aiMessages
UserNode == [role |-> "user", content |-> "question"]
EmptyNode == [role |-> "assistant", content |-> ""]
NullNode == [role |-> "assistant", content |-> None]
NodeA == [role |-> "assistant", content |-> "answer a"]
NodeB == [role |-> "assistant", content |-> "answer b"]

\* reply to the polling query: {"errors": ...} or the nodes
PollReplies ==
    {[errors |-> TRUE, nodes |-> <<>>],
     [errors |-> FALSE, nodes |-> <<>>],
     [errors |-> FALSE, nodes |-> <<UserNode, EmptyNode, NullNode>>],
     [errors |-> FALSE, nodes |-> <<NodeA, NodeB>>],
     [errors |-> FALSE, nodes |-> <<UserNode, EmptyNode, NodeB, NodeA>>]}

Range(s) == {s[k] : k \in DOMAIN s}

----------------------------------------------------------------------------
(* Pure functions of the client *)

\* the first position of sep in s from position k on, 0 when there is none
RECURSIVE find(_, _, _)
find(s, sep, k) ==
    IF k > Len(s) THEN 0
    ELSE IF s[k] = sep THEN k
    ELSE find(s, sep, k + 1)

\* str.split(sep): the pieces of s between the occurrences of sep
RECURSIVE split(_, _)
split(s, sep) ==
    LET p == find(s, sep, 1)
    IN  IF p = 0 THEN <<s>>
        ELSE <<SubSeq(s, 1, p - 1)>> \o split(SubSeq(s, p + 1, Len(s)), sep)

\* the value of each decimal digit
DigitValue == [c \in Range(DigitChars) |-> CHOOSE d \in 0..9 : DigitChars[d + 1] = c]

\* whether int(s) returns: s is digits, or '-' and digits; otherwise ValueError
is_int_literal(s) ==
    LET digits == IF s # <<>> /\ s[1] = "-" THEN Tail(s) ELSE s
    IN  digits # <<>> /\ \A k \in DOMAIN digits : digits[k] \in DOMAIN DigitValue

RECURSIVE digits_value(_, _)
digits_value(s, k) ==
    IF k = 0 THEN 0 ELSE 10 * digits_value(s, k - 1) + DigitValue[s[k]]

\* int(s), for s with is_int_literal(s)
int(s) == IF s[1] = "-" THEN 0 - digits_value(Tail(s), Len(s) - 1) ELSE digits_value(s, Len(s))

\* the exceptions of version_gte
Exceptions == {"ValueError", "IndexError"}

\* the exception int(parts[k]) raises, None when it returns (parts[k] is
\* Python's parts[k - 1])
int_part_raises(parts, k) ==
    IF k > Len(parts) THEN "IndexError"
    ELSE IF ~is_int_literal(parts[k]) THEN "ValueError"
    ELSE None

\* the exception of `int(v_parts[k]) > int(min_parts[k])`: the left operand is
\* evaluated first
comparison_raises(v_parts, min_parts, k) ==
    LET left == int_part_raises(v_parts, k)
    IN  IF left # None THEN left ELSE int_part_raises(min_parts, k)

\* a patch component that keeps its suffix
patch_of_keeps_suffix(part) == part

\* part.split('-')[0]: the patch component without its suffix
patch_of(part) == split(part, "-")[1]

\* version_gte: "True", "False", or the exception it raises
version_gte(version, min_version) ==
    IF version = <<>> \/ min_version = <<>> THEN "False"
    ELSE
      LET v_parts == split(version, ".")
          min_parts == split(min_version, ".")
          major_raises == comparison_raises(v_parts, min_parts, 1)
          v_major == int(v_parts[1])
          min_major == int(min_parts[1])
          minor_raises == comparison_raises(v_parts, min_parts, 2)
          v_minor == int(v_parts[2])
          min_minor == int(min_parts[2])
          v_patch == patch_of(v_parts[3])
          min_patch == patch_of(min_parts[3])
      IN
      IF major_raises # None THEN major_raises
      ELSE IF v_major > min_major THEN "True"
      ELSE IF v_major < min_major THEN "False"
      ELSE IF minor_raises # None THEN minor_raises
      ELSE IF v_minor > min_minor THEN "True"
      ELSE IF v_minor < min_minor THEN "False"
      ELSE IF Len(v_parts) < 3 \/ Len(min_parts) < 3 THEN "IndexError"
      ELSE IF ~is_int_literal(v_patch) \/ ~is_int_literal(min_patch) THEN "ValueError"
      ELSE IF int(v_patch) >= int(min_patch) THEN "True"
      ELSE "False"

\* a get_gitlab_version that asks the legacy field first
get_gitlab_version_legacy_first(cache, meta, legacy) ==
    IF cache # <<>>
    THEN [version |-> cache, cache |-> cache, queries |-> <<>>]
    ELSE IF ~legacy.errors /\ legacy.version # <<>>
    THEN [version |-> legacy.version, cache |-> legacy.version,
          queries |-> <<"getVersion">>]
    ELSE IF meta.errors
    THEN [version |-> <<>>, cache |-> cache,
          queries |-> <<"getVersion", "getMetadataVersion">>]
    ELSE [version |-> meta.version, cache |-> meta.version,
          queries |-> <<"getVersion", "getMetadataVersion">>]

\* get_gitlab_version with the cache and the replies to its two queries:
\* the value returned, the cache afterwards and the queries it sent
get_gitlab_version(cache, meta, legacy) ==
    IF cache # <<>>
    THEN [version |-> cache, cache |-> cache, queries |-> <<>>]
    ELSE IF ~meta.errors /\ meta.version # <<>>
    THEN [version |-> meta.version, cache |-> meta.version,
          queries |-> <<"getMetadataVersion">>]
    ELSE IF legacy.errors
    THEN [version |-> <<>>, cache |-> cache,
          queries |-> <<"getMetadataVersion", "getVersion">>]
    ELSE [version |-> legacy.version, cache |-> legacy.version,
          queries |-> <<"getMetadataVersion", "getVersion">>]

\* every outcome of one get_gitlab_version() call, over the replies of the server
VersionOutcomes(cache) ==
    {get_gitlab_version(cache, meta, legacy) : meta \in VersionReplies, legacy \in VersionReplies}

\* get_available_conversation_types, given the reply to its query
get_available_conversation_types(r) ==
    IF r.errors THEN <<"DUO_CHAT_LEGACY">>
    ELSE IF r.enumValues # <<>> THEN r.enumValues
    ELSE <<"DUO_CHAT_LEGACY">>

BaseDeclared == {"question", "resourceId", "currentFileContext", "clientSubscriptionId"}

\* the four templates of get_chat_mutation: the mutation (the variables it
\* declares, whether it selects threadId) and the default variables
base_template ==
    [raised |-> None,
     query |-> [tier |-> "base", declares |-> BaseDeclared, selectsThreadId |-> FALSE],
     defaultVariables |-> <<>>]

platform_origin_template ==
    [raised |-> None,
     query |-> [tier |-> "platform_origin",
                declares |-> BaseDeclared \cup {"platformOrigin"},
                selectsThreadId |-> FALSE],
     defaultVariables |-> [platformOrigin |-> PLATFORM_ORIGIN]]

additional_context_template ==
    [raised |-> None,
     query |-> [tier |-> "additional_context",
                declares |-> BaseDeclared \cup {"platformOrigin", "additionalContext"},
                selectsThreadId |-> FALSE],
     defaultVariables |-> [platformOrigin |-> PLATFORM_ORIGIN]]

\* a template for 17.10.0 whose mutation lacks additionalContext
conversation_type_template_drops_context ==
    [raised |-> None,
     query |-> [tier |-> "conversation_type",
                declares |-> BaseDeclared \cup {"platformOrigin", "conversationType",
                                                "threadId"},
                selectsThreadId |-> TRUE],
     defaultVariables |-> [platformOrigin |-> PLATFORM_ORIGIN]]

conversation_type_template ==
    [raised |-> None,
     query |-> [tier |-> "conversation_type",
                declares |-> BaseDeclared \cup {"platformOrigin", "additionalContext",
                                                "conversationType", "threadId"},
                selectsThreadId |-> TRUE],
     defaultVariables |-> [platformOrigin |-> PLATFORM_ORIGIN]]

\* an exception of version_gte leaves the caller: there is no template
raise(exception) ==
    [raised |-> exception,
     query |-> [tier |-> "none", declares |-> {}, selectsThreadId |-> FALSE],
     defaultVariables |-> <<>>]

\* a get_chat_mutation that tests the thresholds from the lowest upwards
get_chat_mutation_lowest_first(version) ==
    LET origin == version_gte(version, MINIMUM_PLATFORM_ORIGIN_FIELD_VERSION)
    IN  IF version = <<>> THEN base_template
        ELSE IF origin \in Exceptions THEN raise(origin)
        ELSE IF origin = "True" THEN platform_origin_template
        ELSE base_template

\* get_chat_mutation, given the version get_gitlab_version returned
get_chat_mutation(version) ==
    LET conversation_type == version_gte(version, MINIMUM_CONVERSATION_TYPE_VERSION)
        additional_context == version_gte(version, MINIMUM_ADDITIONAL_CONTEXT_FIELD_VERSION)
        origin == version_gte(version, MINIMUM_PLATFORM_ORIGIN_FIELD_VERSION)
    IN  IF version = <<>> THEN base_template
        ELSE IF conversation_type \in Exceptions THEN raise(conversation_type)
        ELSE IF conversation_type = "True" THEN conversation_type_template
        ELSE IF additional_context \in Exceptions THEN raise(additional_context)
        ELSE IF additional_context = "True" THEN additional_context_template
        ELSE IF origin \in Exceptions THEN raise(origin)
        ELSE IF origin = "True" THEN platform_origin_template
        ELSE base_template

\* version_gte and get_chat_mutation depend on their arguments alone: for the
\* versions a session may hold and the three minimum versions they are computed once
Thresholds ==
    {MINIMUM_PLATFORM_ORIGIN_FIELD_VERSION, MINIMUM_ADDITIONAL_CONTEXT_FIELD_VERSION,
     MINIMUM_CONVERSATION_TYPE_VERSION}

session_version_gte ==
    [v \in Versions \cup {<<>>} |-> [m \in Thresholds |-> version_gte(v, m)]]

session_chat_mutation == [v \in Versions \cup {<<>>} |-> get_chat_mutation(v)]

\* a choice of the first type of the list
choose_conversation_type_first_listed(conversation_types) == conversation_types[1]

\* the conversation type send_message picks from the list
choose_conversation_type(conversation_types) ==
    IF "DUO_CHAT" \in Range(conversation_types) THEN "DUO_CHAT"
    ELSE IF "AGENTIC_CHAT" \in Range(conversation_types) THEN "AGENTIC_CHAT"
    ELSE "DUO_CHAT_LEGACY"

\* the thread id send_message puts in the variables: the session's, when set
thread_variable(tid) ==
    IF Truthy(tid) THEN ("threadId" :> tid) ELSE <<>>

\* the variables send_message builds
build_variables(message, client_subscription_id, default_variables, version, conversation_types, tid) ==
    LET base == default_variables
                @@ [question |-> message, clientSubscriptionId |-> client_subscription_id]
        typed == IF session_version_gte[version][MINIMUM_CONVERSATION_TYPE_VERSION] = "True"
                 THEN ("conversationType" :> choose_conversation_type(conversation_types))
                      @@ base
                 ELSE base
    IN  thread_variable(tid) @@ typed

\* the thread id of the session after a successful dispatch returned `returned`
store_thread_id(current, returned) ==
    IF Truthy(returned) THEN returned ELSE current

\* a scan that goes on after a node with content and returns the last one
RECURSIVE scan_nodes_last(_, _)
scan_nodes_last(nodes, k) ==
    IF k > Len(nodes) THEN 0
    ELSE LET rest == scan_nodes_last(nodes, k + 1)
         IN  IF rest # 0 THEN rest
             ELSE IF nodes[k].role = "assistant" /\ Truthy(nodes[k].content) THEN k
             ELSE 0

\* the scan of the nodes in one polling attempt: the index of the first node with
\* the assistant role and content, 0 when there is none
RECURSIVE scan_nodes(_, _)
scan_nodes(nodes, k) ==
    IF k > Len(nodes) THEN 0
    ELSE IF nodes[k].role = "assistant" /\ Truthy(nodes[k].content) THEN k
    ELSE scan_nodes(nodes, k + 1)

----------------------------------------------------------------------------
(* The session and its operations *)

\* GitLabAIChat.__init__
new_session ==
    /\ thread_id = None
    /\ request_ids = <<>>
    /\ gitlab_version = <<>>
    /\ pc = "idle"
    /\ caller = "none"
    /\ sent = <<>>
    /\ reply = <<>>
    /\ request_id = None
    /\ poll_query = None
    /\ i = 0
    /\ polls = <<>>
    /\ reqs = <<>>
    /\ returned_at = None
    /\ result = None
    /\ clear_ret = FALSE
    /\ first_thread = None

\* the interactive session starts with a new GitLabAIChat
Init ==
    /\ new_session
    /\ args = <<>>
    /\ value = <<>>

\* send_message returns v at the return statement `at`; when clear_chat called it,
\* clear_chat returns `v is not None`
return_from_send(v, at) ==
    /\ pc' = "idle"
    /\ result' = v
    /\ returned_at' = at
    /\ clear_ret' = IF caller = "clear_chat" THEN v # None ELSE clear_ret

\* send_message up to the point where the mutation is sent: the version, the
\* mutation template, the conversation types and the variables.  An exception of
\* version_gte (in get_chat_mutation, or at line 394) leaves send_message.
send_message(message, who) ==
    /\ \E client_subscription_id \in Uuids :
       \E d1 \in VersionOutcomes(gitlab_version) :
       \E d2 \in VersionOutcomes(d1.cache) :
         LET version == d1.version
             mutation_template == session_chat_mutation[d2.version]
             needed == session_version_gte[version][MINIMUM_CONVERSATION_TYPE_VERSION]
             typed == needed = "True"
         IN  /\ gitlab_version' = d2.cache
             /\ IF mutation_template.raised # None \/ needed \in Exceptions
                THEN /\ pc' = "raised"
                     /\ sent' = <<>>
                     /\ reqs' = d1.queries \o d2.queries
                ELSE \E r \in IF typed THEN ConversationTypeReplies
                                       ELSE {[errors |-> TRUE, enumValues |-> <<>>]} :
                       LET conversation_types ==
                               IF typed THEN get_available_conversation_types(r) ELSE <<>>
                           variables ==
                               build_variables(message, client_subscription_id,
                                               mutation_template.defaultVariables, version,
                                               conversation_types, thread_id)
                       IN  /\ pc' = "dispatched"
                           /\ sent' = <<[mutation |-> mutation_template.query,
                                         variables |-> variables,
                                         introspection |-> IF typed THEN <<r>> ELSE <<>>,
                                         conversation_types |-> conversation_types]>>
                           /\ reqs' = d1.queries \o d2.queries
                                      \o (IF typed THEN <<"getConversationTypes">> ELSE <<>>)
                                      \o <<"chat">>
    /\ caller' = who
    /\ reply' = <<>>
    /\ request_id' = None
    /\ poll_query' = None
    /\ i' = 0
    /\ polls' = <<>>
    /\ returned_at' = None
    /\ result' = None
    /\ clear_ret' = FALSE
    /\ UNCHANGED <<thread_id, request_ids, args, value>>

\* the interactive loop passes the user's line to send_message
user_message(message) ==
    /\ pc = "idle"
    /\ send_message(message, "send_message")
    /\ UNCHANGED first_thread

\* a clear_chat without the test of thread_id
clear_chat_always_dispatches ==
    /\ pc = "idle"
    /\ first_thread' = None
    /\ send_message(SPECIAL_MESSAGES.CLEAR, "clear_chat")

\* clear_chat
clear_chat ==
    /\ pc = "idle"
    /\ first_thread' = None
    /\ IF ~Truthy(thread_id)
       THEN /\ caller' = "clear_chat"
            /\ returned_at' = "L533"
            /\ clear_ret' = TRUE
            /\ result' = None
            /\ sent' = <<>>
            /\ reply' = <<>>
            /\ request_id' = None
            /\ poll_query' = None
            /\ i' = 0
            /\ polls' = <<>>
            /\ reqs' = <<>>
            /\ UNCHANGED <<thread_id, request_ids, gitlab_version, pc, args, value>>
       ELSE send_message(SPECIAL_MESSAGES.CLEAR, "clear_chat")

\* a send_message that stores the thread id before it looks for the request id
handle_reply_stores_thread_first(tid, rids, data) ==
    IF data.errors
    THEN [at |-> "L428", thread_id |-> tid, request_ids |-> rids]
    ELSE IF ~Truthy(data.requestId)
    THEN [at |-> "L437", thread_id |-> store_thread_id(tid, data.threadId),
          request_ids |-> rids]
    ELSE [at |-> "L450", thread_id |-> store_thread_id(tid, data.threadId),
          request_ids |-> Append(rids, data.requestId)]

\* a send_message that goes on to poll when the reply has no request id
handle_reply_polls_without_request_id(tid, rids, data) ==
    IF data.errors
    THEN [at |-> "L428", thread_id |-> tid, request_ids |-> rids]
    ELSE [at |-> "L450", thread_id |-> store_thread_id(tid, data.threadId),
          request_ids |-> IF Truthy(data.requestId) THEN Append(rids, data.requestId)
                          ELSE rids]

\* what send_message does to the session with the reply to the mutation, and the
\* statement it reaches: the two error returns, or the call of _poll_for_response
handle_reply(tid, rids, data) ==
    IF data.errors
    THEN [at |-> "L428", thread_id |-> tid, request_ids |-> rids]
    ELSE IF ~Truthy(data.requestId)
    THEN [at |-> "L437", thread_id |-> tid, request_ids |-> rids]
    ELSE [at |-> "L450", thread_id |-> store_thread_id(tid, data.threadId),
          request_ids |-> Append(rids, data.requestId)]

\* send_message from the reply to the mutation: the error returns, the session
\* update, and the start of _poll_for_response up to its loop.  A GraphQL reply
\* holds the fields the request selects: aiAction has a threadId only when the
\* mutation sent selects it.
dispatch_reply(data) ==
    /\ pc = "dispatched"
    /\ data.threadId # None => sent[1].mutation.selectsThreadId
    /\ reply' = <<data>>
    /\ sent' = <<>>
    /\ UNCHANGED <<caller, i, polls, args, value>>
    /\ LET h == handle_reply(thread_id, request_ids, data)
       IN
       /\ thread_id' = h.thread_id
       /\ request_ids' = h.request_ids
       /\ first_thread' = IF ~Truthy(thread_id) /\ first_thread = None
                          THEN h.thread_id ELSE first_thread
       /\ IF h.at # "L450"
          THEN /\ return_from_send(None, h.at)
               /\ UNCHANGED <<gitlab_version, request_id, poll_query, reqs>>
          ELSE
            /\ Len(request_ids) < MaxHistory
            /\ request_id' = data.requestId
            /\ \E d \in VersionOutcomes(gitlab_version) :
                 LET with_context ==
                         session_version_gte[d.version][MINIMUM_ADDITIONAL_CONTEXT_FIELD_VERSION]
                 IN  /\ gitlab_version' = d.cache
                     /\ reqs' = reqs \o d.queries
                     /\ IF with_context \in Exceptions
                        THEN pc' = "raised" /\ poll_query' = None
                        ELSE /\ pc' = "poll"
                             /\ poll_query' =
                                    IF with_context = "True"
                                    THEN "getAiMessages with additionalContext"
                                    ELSE "getAiMessages"
            /\ UNCHANGED <<returned_at, result, clear_ret>>

\* an attempt that gives up on an error reply
poll_step_error_ends(data) ==
    IF data.errors
    THEN [done |-> TRUE, value |-> None]
    ELSE LET k == scan_nodes(data.nodes, 1)
         IN  IF k # 0 THEN [done |-> TRUE, value |-> data.nodes[k].content]
             ELSE [done |-> FALSE, value |-> None]

\* what one attempt of the loop does with the reply to its query
poll_step(data) ==
    IF data.errors
    THEN [done |-> FALSE, value |-> None]
    ELSE LET k == scan_nodes(data.nodes, 1)
         IN  IF k # 0 THEN [done |-> TRUE, value |-> data.nodes[k].content]
             ELSE [done |-> FALSE, value |-> None]

\* a loop that runs one attempt too many
loop_continues_once_more(k) == k <= max_retries

\* for i in range(max_retries): whether the loop has an attempt left at index k
loop_continues(k) == k < max_retries

\* one attempt of the loop of _poll_for_response
poll_attempt(data) ==
    /\ pc = "poll"
    /\ loop_continues(i)
    /\ reqs' = Append(reqs, "getAiMessages")
    /\ polls' = Append(polls, data)
    /\ LET step == poll_step(data)
       IN  IF step.done
           THEN /\ return_from_send(step.value, "L522")
                /\ UNCHANGED i
           ELSE /\ i' = i + 1
                /\ UNCHANGED <<pc, result, returned_at, clear_ret>>
    /\ UNCHANGED <<thread_id, request_ids, gitlab_version, caller, sent, reply,
                   request_id, poll_query, first_thread, args, value>>

\* the end of _poll_for_response after the loop
poll_timeout ==
    /\ pc = "poll"
    /\ ~loop_continues(i)
    /\ return_from_send(None, "L527")
    /\ UNCHANGED <<thread_id, request_ids, gitlab_version, caller, sent, reply,
                   request_id, poll_query, i, polls, reqs, first_thread, args, value>>

Next ==
    \/ \E message \in Messages : user_message(message)
    \/ clear_chat
    \/ \E data \in DispatchReplies : dispatch_reply(data)
    \/ \E data \in PollReplies : poll_attempt(data)
    \/ poll_timeout

Spec == Init /\ [][Next]_vars

\* _poll_for_response runs on: every polling request returns (a reply or a
\* transport error, which _graphql_request turns into an errors reply), the sleep
\* ends, and the statement after the loop is reached
FairSpec ==
    /\ Spec
    /\ WF_vars(\E data \in PollReplies : poll_attempt(data))
    /\ WF_vars(poll_timeout)

----------------------------------------------------------------------------
(* The session under a user abort *)

\* where a KeyboardInterrupt may be raised while send_message handles the reply
\* to the mutation: in _graphql_request (line 424, the reply is not read), after
\* the store of the thread id and before the append (line 443), after the append
\* (line 446)
InterruptPoints == {"L424", "L443", "L446"}

\* the session fields when the interrupt is raised at `at`
interrupted_handle_reply(tid, rids, data, at) ==
    LET h == handle_reply(tid, rids, data)
    IN  IF at = "L424" \/ h.at # "L450" THEN [thread_id |-> tid, request_ids |-> rids]
        ELSE IF at = "L443" THEN [thread_id |-> h.thread_id, request_ids |-> rids]
        ELSE [thread_id |-> h.thread_id, request_ids |-> h.request_ids]

\* KeyboardInterrupt between the dispatch and the call of _poll_for_response:
\* nothing catches it, send_message does not return
interrupt_dispatch(data, at) ==
    /\ pc = "dispatched"
    /\ data.threadId # None => sent[1].mutation.selectsThreadId
    /\ LET h == interrupted_handle_reply(thread_id, request_ids, data, at)
       IN  /\ thread_id' = h.thread_id
           /\ request_ids' = h.request_ids
    /\ pc' = "interrupted"
    /\ UNCHANGED <<gitlab_version, caller, sent, reply, request_id, poll_query, i, polls,
                   reqs, returned_at, result, clear_ret, first_thread, args, value>>

\* KeyboardInterrupt in the loop of _poll_for_response: in the request or in
\* time.sleep
interrupt_poll ==
    /\ pc = "poll"
    /\ pc' = "interrupted"
    /\ UNCHANGED <<thread_id, request_ids, gitlab_version, caller, sent, reply, request_id,
                   poll_query, i, polls, reqs, returned_at, result, clear_ret,
                   first_thread, args, value>>

InterruptNext ==
    \/ Next
    \/ \E data \in DispatchReplies : \E at \in InterruptPoints : interrupt_dispatch(data, at)
    \/ interrupt_poll

InterruptSpec == Init /\ [][InterruptNext]_vars

----------------------------------------------------------------------------
(* The pure functions applied to drawn arguments *)

(* The handler of POST /v1/chat/completions of ai_test.py.  A request body is
   the parsed JSON object: whether it has the key "messages", the messages and
   the stream flag.  A message has a role ("user", "assistant", None when the key
   is absent) and a content, of which the handler looks at the type only: a
   string, a list, another JSON value, or "missing" when the key is absent. *)
ContentTypes == {"str", "list", "other", "missing"}

ChatMessages == [role : {"user", "assistant", None}, content : ContentTypes]

\* no message, one message, two messages
MessageLists ==
    {<<>>} \cup {<<a>> : a \in ChatMessages} \cup {<<a, b>> : a \in ChatMessages, b \in ChatMessages}

RequestBodies ==
    {[has_messages |-> FALSE, messages |-> <<>>, stream |-> FALSE]}
    \cup [has_messages : {TRUE}, messages : MessageLists, stream : BOOLEAN]

\* what requests.post to the external API gives: a RequestException, or a JSON
\* object with a choice, without the key "choices", or with an empty choices list
ExternalReplies == {"RequestException", "choices", "no choices", "empty choices"}

\* lines 102-113: a content that is no string is replaced by a string; reading
\* message["content"] of a message without the key raises KeyError
fix_content_raises(body) ==
    body.has_messages /\ \E k \in DOMAIN body.messages : body.messages[k].content = "missing"

fix_content(message) ==
    [role |-> message.role,
     content |-> CASE message.content = "str" -> "str"
                   [] message.content = "list" -> "str"
                   [] message.content = "other" -> "str"
                   [] OTHER -> "missing"]

\* ChatCompletionRequest(**body): messages is required, and in every message a
\* role and a content that are strings; otherwise ValidationError (the bodies
\* here all carry the other required field, model)
ChatCompletionRequest(body) ==
    /\ body.has_messages
    /\ \A k \in DOMAIN body.messages :
         fix_content(body.messages[k]).role # None
         /\ fix_content(body.messages[k]).content = "str"

\* fetch_external_chat_response: the JSON of the reply, or HTTPException 500
fetch_external_chat_response(external) ==
    IF external = "RequestException" THEN [raised |-> "500", choices |-> None]
    ELSE [raised |-> None, choices |-> external]

\* chat_completions: the status of the response (or the exception that leaves
\* the handler) and the number of calls of the external API
chat_completions(body, external) ==
    IF fix_content_raises(body) THEN [outcome |-> "KeyError", external_calls |-> 0]
    ELSE IF ~ChatCompletionRequest(body) THEN [outcome |-> "422", external_calls |-> 0]
    ELSE IF body.messages = <<>> THEN [outcome |-> "IndexError", external_calls |-> 0]
    ELSE IF body.messages[Len(body.messages)].role # "user"
    THEN [outcome |-> "400", external_calls |-> 0]
    ELSE LET external_response == fetch_external_chat_response(external)
         IN  IF external_response.raised # None
             THEN [outcome |-> external_response.raised, external_calls |-> 1]
             ELSE IF external_response.choices = "empty choices"
             THEN [outcome |-> "IndexError", external_calls |-> 1]
             ELSE [outcome |-> "200", external_calls |-> 1]

\* releases (major, minor, patch) around the three thresholds, with one-digit and
\* two-digit components
Majors == {9, 17, 18}
Minors == {2, 3, 5, 9, 10}
Patches == {0, 1, 9, 10}
Releases == {<<a, b, c>> : a \in Majors, b \in Minors, c \in Patches}

\* the texts of the releases, with and without a pre-release suffix
VersionStrings == {version_string(release, suffix) : release \in Releases, suffix \in Suffixes}

\* every version text a call may get: a release, a text that is no release, none
VersionTexts == VersionStrings \cup UnparsableVersions \cup {<<>>}

\* the calls: a function of the client and its arguments
Calls ==
    {[fn |-> "version_gte", version |-> v, min_version |-> m] :
        v \in VersionTexts, m \in VersionStrings \cup {<<>>}}
    \cup {[fn |-> "get_gitlab_version", cache |-> c, meta |-> meta, legacy |-> legacy] :
            c \in {<<>>} \cup Versions, meta \in VersionReplies, legacy \in VersionReplies}
    \cup {[fn |-> "get_chat_mutation", version |-> v] : v \in VersionTexts}
    \cup {[fn |-> "build_variables", version |-> v, thread_id |-> t, introspection |-> r] :
            v \in VersionStrings \cap Versions,
            t \in {None, ""} \cup ThreadIds, r \in ConversationTypeReplies}
    \cup {[fn |-> "chat_completions", body |-> b, external |-> e] :
            b \in RequestBodies, e \in ExternalReplies}

FnInit ==
    /\ new_session
    /\ args \in Calls
    /\ value = <<>>

\* the call returns (or raises): value holds the outcome
returns(v) ==
    /\ value = <<>>
    /\ value' = <<v>>
    /\ UNCHANGED <<thread_id, request_ids, gitlab_version, pc, caller, sent, reply,
                   request_id, poll_query, i, polls, reqs, returned_at, result,
                   clear_ret, first_thread, args>>

apply_version_gte ==
    /\ args.fn = "version_gte"
    /\ returns(version_gte(args.version, args.min_version))

apply_get_gitlab_version ==
    /\ args.fn = "get_gitlab_version"
    /\ returns(get_gitlab_version(args.cache, args.meta, args.legacy))

apply_get_chat_mutation ==
    /\ args.fn = "get_chat_mutation"
    /\ returns(get_chat_mutation(args.version))

\* the submission of send_message in a session that has the version cached and
\* holds the thread id: the mutation of the template and the variables
apply_build_variables ==
    /\ args.fn = "build_variables"
    /\ LET mutation_template == get_chat_mutation(args.version)
           typed == version_gte(args.version, MINIMUM_CONVERSATION_TYPE_VERSION) = "True"
           conversation_types ==
               IF typed THEN get_available_conversation_types(args.introspection) ELSE <<>>
       IN  returns([mutation |-> mutation_template.query,
                    variables |-> build_variables("hello", "u1",
                                                  mutation_template.defaultVariables,
                                                  args.version, conversation_types,
                                                  args.thread_id)])

apply_chat_completions ==
    /\ args.fn = "chat_completions"
    /\ returns(chat_completions(args.body, args.external))

FnNext ==
    \/ apply_chat_completions
    \/ apply_version_gte
    \/ apply_get_gitlab_version
    \/ apply_get_chat_mutation
    \/ apply_build_variables

FnSpec == FnInit /\ [][FnNext]_vars

----------------------------------------------------------------------------
(* Vocabulary of the properties, in terms of the replies alone *)

\* the reply to the mutation is a failed dispatch: an errors list, or no request id
DispatchFailed(data) == data.errors \/ data.requestId \in {None, ""}

\* positions of the nodes of a polling reply that carry assistant content
AnswerPositions(data) ==
    IF data.errors THEN {}
    ELSE {n \in DOMAIN data.nodes :
            data.nodes[n].role = "assistant" /\ data.nodes[n].content \notin {None, ""}}

HasAnswer(data) == AnswerPositions(data) # {}

\* the content of the first such node of the reply
FirstAnswer(data) ==
    LET n == CHOOSE a \in AnswerPositions(data) : \A b \in AnswerPositions(data) : a <= b
    IN  data.nodes[n].content

\* the last top-level call has returned and had dispatched its mutation successfully
Resolving == reply # <<>> /\ ~DispatchFailed(reply[1])

\* the requests of discovery, dispatch and primary polling; a query of a fallback
\* strategy is any other request
PrimaryRequests ==
    {"getMetadataVersion", "getVersion", "getConversationTypes", "chat", "getAiMessages"}

\* the request names of version discovery
VersionQueries == {"getMetadataVersion", "getVersion"}

\* the release (major, minor, patch) a version text was written from
ReleaseOf(text) ==
    CHOOSE release \in Releases : \E suffix \in Suffixes : version_string(release, suffix) = text

\* lexicographic order of (major, minor, patch)
release_gte(a, b) ==
    \/ a[1] > b[1]
    \/ a[1] = b[1] /\ a[2] > b[2]
    \/ a[1] = b[1] /\ a[2] = b[2] /\ a[3] >= b[3]

\* the fields of a tier's submission: the inputs of the mutation and the default
\* variables
template_fields(template) == template.query.declares \cup DOMAIN template.defaultVariables

\* the order of the tiers
TierRank ==
    [base |-> 0, platform_origin |-> 1, additional_context |-> 2, conversation_type |-> 3]

\* how often a request name occurs among the requests of a call
Count(requests, name) == Cardinality({k \in DOMAIN requests : requests[k] = name})

\* the first get_gitlab_version of the current call sent both queries and came
\* back without a version: the next request is a version query again
FirstDiscoveryFailed == Len(reqs) >= 3 /\ reqs[3] = "getMetadataVersion"

----------------------------------------------------------------------------
(* C1: after a successful dispatch the session adopts the returned thread id when
   it had none, and keeps its own thread id when it had one, whatever thread id
   the server returned. *)
C1_ThreadIdTransition ==
    [][(pc = "dispatched" /\ reply' # <<>> /\ ~DispatchFailed(reply'[1]))
        => thread_id' = IF thread_id \notin {None, ""} THEN thread_id
                        ELSE IF reply'[1].threadId \notin {None, ""}
                             THEN reply'[1].threadId
                             ELSE thread_id]_vars

(* C2: a failed dispatch (an errors list, or a reply without a request id, with or
   without a thread id) leaves the thread id and the request-id history as they
   were, and send_message returns None without sending a polling query. *)
C2_FailedDispatchLeavesSession ==
    [][(pc = "dispatched" /\ reply' # <<>> /\ DispatchFailed(reply'[1]))
        => /\ thread_id' = thread_id
           /\ request_ids' = request_ids
           /\ pc' = "idle"
           /\ result' = None
           /\ polls' = <<>>
           /\ reqs' = reqs
           /\ "getAiMessages" \notin Range(reqs')]_vars

\* a reply without a request id that carried a thread id was handled, and the
\* session still has no thread
C2_Witness ==
    /\ pc = "idle"
    /\ reply # <<>>
    /\ ~reply[1].errors
    /\ reply[1].requestId = None
    /\ reply[1].threadId = "t1"
    /\ thread_id = None
    /\ request_ids = <<>>

(* C3: in the polling loop the value returned is the content of the first node, in
   attempt order and then node order, with the assistant role and content; no
   polling query is sent after the attempt that showed such a node. *)
C3_FirstMatchWins ==
    /\ \A k \in 1..(Len(polls) - 1) : ~HasAnswer(polls[k])
    /\ (polls # <<>> /\ HasAnswer(polls[Len(polls)]))
         => /\ pc = "idle"
            /\ returned_at = "L522"
            /\ result = FirstAnswer(polls[Len(polls)])

\* the second attempt showed answer b before answer a, after a first attempt
\* without an answer, and b was returned
C3_Witness ==
    /\ pc = "idle"
    /\ Len(polls) = 2
    /\ ~HasAnswer(polls[1])
    /\ polls[2].nodes = <<UserNode, EmptyNode, NodeB, NodeA>>
    /\ result = "answer b"

(* C4: resolution always terminates: the loop sends at most max_retries polling
   queries and every resolution that started returns; when no attempt shows
   assistant content it sends exactly max_retries queries and then returns None
   from the statement after the loop (TimedOut). *)
C4_BoundedPolling ==
    /\ [](Len(polls) <= max_retries)
    /\ [](pc = "poll" => i = Len(polls))
    /\ []((pc = "idle" /\ Resolving /\ \A k \in 1..Len(polls) : ~HasAnswer(polls[k]))
            => /\ Len(polls) = max_retries
               /\ returned_at = "L527"
               /\ result = None)
    /\ (pc = "poll") ~> (pc = "idle")

\* a resolution that saw an error and nodes without an answer ended TimedOut
C4_Witness ==
    /\ pc = "idle"
    /\ returned_at = "L527"
    /\ Len(polls) = max_retries
    /\ polls[1].errors
    /\ polls[2].nodes = <<UserNode, EmptyNode, NullNode>>
    /\ \E k \in 1..Len(polls) : ~polls[k].errors /\ polls[k].nodes = <<>>
    /\ result = None

(* C5: an error reply to a polling query never ends the loop: it uses up one
   attempt and the loop goes on; when a later attempt shows assistant content the
   resolution returns that content. *)
C5_PollErrorsNonTerminal ==
    /\ [][(pc = "poll" /\ Len(polls') = Len(polls) + 1 /\ polls'[Len(polls')].errors)
           => pc' = "poll" /\ i' = i + 1 /\ returned_at' = None]_vars
    /\ [](\A j \in 1..Len(polls) : \A k \in 1..Len(polls) :
            (j < k /\ polls[j].errors /\ HasAnswer(polls[k]))
              => pc = "idle" /\ returned_at = "L522" /\ result = FirstAnswer(polls[k]))

\* the first attempt returned an error, the second an answer, which was returned
C5_Witness ==
    /\ pc = "idle"
    /\ Len(polls) = 2
    /\ polls[1].errors
    /\ HasAnswer(polls[2])
    /\ result = FirstAnswer(polls[2])

(* C6: when the primary poll has not resolved partway through the attempt budget
   the resolver runs the fallback strategies, so a resolution does not end
   TimedOut without having sent a fallback query. *)
C6_FallbackBeforeTimeout ==
    (pc = "idle" /\ returned_at = "L527") => \E k \in DOMAIN reqs : reqs[k] \notin PrimaryRequests

(* C7: after clear_chat on a session with a thread id, when the dispatch of the
   control message did not fail, the thread id is null and the request-id history
   is empty. *)
C7_ClearResetsSession ==
    (pc = "idle" /\ caller = "clear_chat" /\ Resolving)
      => thread_id = None /\ request_ids = <<>>

(* C8: clear_chat on a session without a thread id returns True, sends no request
   and leaves thread id, request-id history and cached version unchanged. *)
C8_ClearWithoutThreadIsNoOp ==
    [][(pc = "idle" /\ caller' = "clear_chat" /\ thread_id \in {None, ""})
        => /\ pc' = "idle"
           /\ clear_ret' = TRUE
           /\ reqs' = <<>>
           /\ sent' = <<>>
           /\ session' = session]_vars

\* clear_chat returned from its no-op branch on a session that had been used (a
\* request id in the history, the version cached) and has no thread
C8_Witness ==
    /\ pc = "idle"
    /\ caller = "clear_chat"
    /\ returned_at = "L533"
    /\ clear_ret
    /\ thread_id = None
    /\ request_ids # <<>>
    /\ gitlab_version # <<>>
    /\ reqs = <<>>

(* C9: clear_chat on a session with a thread id returns True when the dispatch
   succeeded, whether the resolution ended Resolved or TimedOut, and False only
   when the dispatch failed. *)
C9_ClearTrueUnlessDispatchFailed ==
    (pc = "idle" /\ caller = "clear_chat" /\ reply # <<>>)
      => (clear_ret <=> ~DispatchFailed(reply[1]))

(* C10: the variables of every submission contain threadId iff the session thread
   id is set, with the session's value; hence every dispatch after the one that
   assigned thread id t, and before a reset, is sent with threadId = t. *)
C10_ThreadFieldFollowsSession ==
    pc = "dispatched" =>
      LET variables == sent[1].variables
      IN  /\ ("threadId" \in DOMAIN variables) <=> (thread_id \notin {None, ""})
          /\ ("threadId" \in DOMAIN variables) => variables.threadId = thread_id
          /\ first_thread # None
               => "threadId" \in DOMAIN variables /\ variables.threadId = first_thread

(* C11: for a version below all thresholds (17.2.9) the variables of the
   submission are the content and the correlation id alone, whatever the thread
   id of the session; and the variables sent are always among the variables the
   chosen mutation declares. *)
C11_VariablesWithinTier ==
    (args.fn = "build_variables" /\ value # <<>>)
      => /\ args.version = version_string(<<17, 2, 9>>, NoSuffix)
              => DOMAIN value[1].variables = {"question", "clientSubscriptionId"}
         /\ DOMAIN value[1].variables \subseteq value[1].mutation.declares

(* C12: version_gte(v, m) on release texts is true iff the release of v is
   lexicographically at or above the release of m, any pre-release suffix
   ignored on both sides; a version that is None or "" meets no threshold. *)
C12_VersionGteIsReleaseOrder ==
    (args.fn = "version_gte" /\ value # <<>>)
      => /\ (args.version \in VersionStrings /\ args.min_version \in VersionStrings)
              => value[1] = IF release_gte(ReleaseOf(args.version),
                                           ReleaseOf(args.min_version))
                            THEN "True" ELSE "False"
         /\ args.version = <<>> => value[1] = "False"

\* 17.10.0-pre was compared with 17.9.10 and is at or above it
C12_Witness ==
    /\ args.fn = "version_gte"
    /\ args.version = version_string(<<17, 10, 0>>, PreSuffix)
    /\ args.min_version = version_string(<<17, 9, 10>>, NoSuffix)
    /\ value = <<"True">>

(* C13: a version that is not major.minor.patch meets no threshold and raises
   nothing: no exception leaves send_message, and the mutation sent for such a
   version is the base one. *)
C13_UnparsableVersionMeetsNoThreshold ==
    /\ pc # "raised"
    /\ (pc = "dispatched" /\ gitlab_version \in UnparsableVersions)
         => sent[1].mutation.tier = "base"

(* C14: the queries of version discovery are sent at most once in a session: a
   step sends at most one getMetadataVersion, and none once a discovery has run
   (a version is cached, or the requests of the call hold a version query). *)
C14_DiscoveryAtMostOnce ==
    [][LET sent_now == IF pc = "idle" THEN reqs'
                       ELSE SubSeq(reqs', Len(reqs) + 1, Len(reqs'))
           ran == gitlab_version # <<>> \/ \E k \in DOMAIN reqs : reqs[k] \in VersionQueries
       IN  Cardinality({k \in DOMAIN sent_now : sent_now[k] = "getMetadataVersion"})
             <= IF ran THEN 0 ELSE 1]_vars

(* C15: get_gitlab_version sends getMetadataVersion first; it sends getVersion
   only after the metadata reply was an error or held no version, and then the
   version of the legacy reply is the result; a metadata reply with a version is
   the result and no legacy query is sent. *)
C15_MetadataThenLegacy ==
    (args.fn = "get_gitlab_version" /\ value # <<>>)
      => LET out == value[1]
             metadata_version == ~args.meta.errors /\ args.meta.version # <<>>
             legacy_version == ~args.legacy.errors /\ args.legacy.version # <<>>
         IN  /\ out.queries \in {<<>>, <<"getMetadataVersion">>,
                                  <<"getMetadataVersion", "getVersion">>}
             /\ "getVersion" \in Range(out.queries)
                   <=> (args.cache = <<>> /\ ~metadata_version)
             /\ (args.cache = <<>> /\ metadata_version)
                   => out.version = args.meta.version
             /\ (args.cache = <<>> /\ ~metadata_version /\ legacy_version)
                   => out.version = args.legacy.version

\* the metadata reply held no version and the legacy reply held 17.3.0
C15_Witness ==
    /\ args.fn = "get_gitlab_version"
    /\ args.cache = <<>>
    /\ ~args.meta.errors
    /\ args.meta.version = <<>>
    /\ value # <<>>
    /\ value[1].queries = <<"getMetadataVersion", "getVersion">>
    /\ value[1].version = version_string(<<17, 3, 0>>, NoSuffix)

(* C16: when the version discovery of send_message failed (both queries an error
   or empty) the message is dispatched with the base mutation, with the content
   and the correlation id alone, and without the introspection query. *)
C16_FailedDiscoveryUsesLowestTier ==
    (pc = "dispatched" /\ FirstDiscoveryFailed)
      => /\ sent[1].mutation.tier = "base"
         /\ DOMAIN sent[1].variables = {"question", "clientSubscriptionId"}
         /\ "getConversationTypes" \notin Range(reqs)

(* C17: the tier of get_chat_mutation is the highest threshold the release
   meets: conversation_type iff release >= 17.10.0, additional_context iff
   17.5.0 <= release < 17.10.0, platform_origin iff 17.3.0 <= release < 17.5.0,
   base otherwise and for no version; each field is declared iff the release is
   at or above the minimum of the field. *)
C17_TierIsHighestThresholdMet ==
    (args.fn = "get_chat_mutation" /\ value # <<>>)
      => /\ args.version = <<>> => value[1] = base_template
         /\ args.version \in VersionStrings
              => LET release == ReleaseOf(args.version)
                     tier == value[1].query.tier
                     fields == template_fields(value[1])
                 IN  /\ value[1].raised = None
                     /\ tier = "conversation_type" <=> release_gte(release, <<17, 10, 0>>)
                     /\ tier = "additional_context"
                           <=> /\ release_gte(release, <<17, 5, 0>>)
                               /\ ~release_gte(release, <<17, 10, 0>>)
                     /\ tier = "platform_origin"
                           <=> /\ release_gte(release, <<17, 3, 0>>)
                               /\ ~release_gte(release, <<17, 5, 0>>)
                     /\ tier = "base" <=> ~release_gte(release, <<17, 3, 0>>)
                     /\ "conversationType" \in fields <=> release_gte(release, <<17, 10, 0>>)
                     /\ "threadId" \in fields <=> release_gte(release, <<17, 10, 0>>)
                     /\ "additionalContext" \in fields <=> release_gte(release, <<17, 5, 0>>)
                     /\ "platformOrigin" \in fields <=> release_gte(release, <<17, 3, 0>>)

\* 17.5.0-pre, on the threshold of additionalContext, got the additional_context tier
C17_Witness ==
    /\ args.fn = "get_chat_mutation"
    /\ args.version = version_string(<<17, 5, 0>>, PreSuffix)
    /\ value = <<additional_context_template>>

(* C18: the fields of a tier (the variables its mutation declares and its
   default variables) include the fields of every lower tier. *)
C18_TiersGrowMonotonically ==
    (args.fn = "get_chat_mutation" /\ value # <<>> /\ value[1].raised = None)
      => \A v \in VersionStrings :
           LET lower == get_chat_mutation(v)
           IN  TierRank[lower.query.tier] < TierRank[value[1].query.tier]
                 => template_fields(lower) \subseteq template_fields(value[1])

\* the template of the highest tier was returned; it has fields the lower tiers lack
C18_Witness ==
    /\ args.fn = "get_chat_mutation"
    /\ value # <<>>
    /\ value[1].query.tier = "conversation_type"
    /\ template_fields(value[1]) # template_fields(additional_context_template)
    /\ template_fields(base_template) \subseteq template_fields(value[1])

(* C19: when send_message asks for the conversation types, the type it sends is
   the first of DUO_CHAT, AGENTIC_CHAT, DUO_CHAT_LEGACY that the reply lists;
   when the reply is an error or lists nothing the type is DUO_CHAT_LEGACY; in
   both cases the mutation is sent. *)
C19_PreferenceOrder ==
    (pc = "dispatched" /\ sent[1].introspection # <<>>)
      => LET r == sent[1].introspection[1]
             advertised == IF r.errors THEN {} ELSE Range(r.enumValues)
             variables == sent[1].variables
         IN  /\ "conversationType" \in DOMAIN variables
             /\ advertised = {} => variables.conversationType = "DUO_CHAT_LEGACY"
             /\ "DUO_CHAT" \in advertised => variables.conversationType = "DUO_CHAT"
             /\ ("DUO_CHAT" \notin advertised /\ "AGENTIC_CHAT" \in advertised)
                   => variables.conversationType = "AGENTIC_CHAT"
             /\ ({"DUO_CHAT", "AGENTIC_CHAT"} \cap advertised = {}
                   /\ "DUO_CHAT_LEGACY" \in advertised)
                   => variables.conversationType = "DUO_CHAT_LEGACY"
             /\ reqs[Len(reqs)] = "chat"
             /\ reqs[Len(reqs) - 1] = "getConversationTypes"

\* the reply listed DUO_CHAT_LEGACY before AGENTIC_CHAT, and AGENTIC_CHAT was sent
C19_Witness ==
    /\ pc = "dispatched"
    /\ sent[1].introspection
         = <<[errors |-> FALSE, enumValues |-> <<"DUO_CHAT_LEGACY", "AGENTIC_CHAT">>]>>
    /\ sent[1].variables.conversationType = "AGENTIC_CHAT"

(* C20: whenever the introspection reply lists at least one conversation type,
   the conversationType sent is one of the types it lists. *)
C20_TypeIsAdvertised ==
    (pc = "dispatched" /\ sent[1].introspection # <<>>
       /\ ~sent[1].introspection[1].errors
       /\ sent[1].introspection[1].enumValues # <<>>)
      => sent[1].variables.conversationType \in Range(sent[1].introspection[1].enumValues)

(* C21: the introspection query is sent, and conversationType is put in the
   variables, only when the version is at or above 17.10.0: every dispatch has
   both or neither, and has them only with such a version in the session; with a
   lower version, or after a discovery without a version, it has neither. *)
C21_IntrospectionGatedByTier ==
    pc = "dispatched" =>
      LET asked == "getConversationTypes" \in Range(reqs)
          typed == "conversationType" \in DOMAIN sent[1].variables
      IN  /\ asked <=> typed
          /\ asked => /\ gitlab_version \in VersionStrings
                      /\ release_gte(ReleaseOf(gitlab_version), <<17, 10, 0>>)
          /\ FirstDiscoveryFailed => ~asked

\* a message was dispatched for version 17.9.1 without introspection and without
\* conversationType
C21_Witness ==
    /\ pc = "dispatched"
    /\ gitlab_version = version_string(<<17, 9, 1>>, NoSuffix)
    /\ reqs = <<"getMetadataVersion", "chat">>
    /\ sent[1].mutation.tier = "additional_context"
    /\ "conversationType" \notin DOMAIN sent[1].variables

(* C22: the request-id history is append-only: a successful dispatch appends the
   request id of the reply at the end, every other step leaves the history as it
   was, and no request id occurs in it twice. *)
C22_HistoryAppendOnlyNoDuplicates ==
    [][/\ \/ request_ids' = request_ids
          \/ /\ pc = "dispatched"
             /\ reply' # <<>>
             /\ ~DispatchFailed(reply'[1])
             /\ request_ids' = Append(request_ids, reply'[1].requestId)
       /\ (pc = "dispatched" /\ reply' # <<>> /\ DispatchFailed(reply'[1]))
            => request_ids' = request_ids
       /\ \A j \in DOMAIN request_ids' : \A k \in DOMAIN request_ids' :
            request_ids'[j] = request_ids'[k] => j = k]_vars

(* C23: a call of send_message sends the chat mutation exactly once; after a
   failed dispatch it has returned None, the mutation is the last request it
   sent and no polling query was sent. *)
C23_DispatchSentOnce ==
    /\ Count(reqs, "chat") <= 1
    /\ (pc \in {"dispatched", "poll"} \/ reply # <<>>) => Count(reqs, "chat") = 1
    /\ (reply # <<>> /\ DispatchFailed(reply[1]))
         => /\ pc = "idle"
            /\ result = None
            /\ reqs[Len(reqs)] = "chat"
            /\ polls = <<>>

\* send_message returned after a reply without a request id; one mutation was sent
C23_Witness ==
    /\ pc = "idle"
    /\ reply # <<>>
    /\ ~reply[1].errors
    /\ reply[1].requestId = ""
    /\ Count(reqs, "chat") = 1
    /\ returned_at = "L437"

(* C25: from the start to the end of _poll_for_response the thread id, the
   request-id history and the cached version do not change: the cached version
   changes in no step from the reply to the mutation on, and no step of the
   loop changes the session. *)
C25_ResolutionLeavesSession ==
    [][/\ pc \in {"dispatched", "poll"} => gitlab_version' = gitlab_version
       /\ pc = "poll" => session' = session]_vars

(* C26: the mutation and the variables of a submission fit each other:
   conversationType is sent iff the mutation is the one of the conversation_type
   tier, platformOrigin iff the mutation declares it, and every variable sent is
   declared by the mutation. *)
C26_VariablesMatchMutation ==
    pc = "dispatched" =>
      LET variables == DOMAIN sent[1].variables
          mutation == sent[1].mutation
      IN  /\ "conversationType" \in variables <=> mutation.tier = "conversation_type"
          /\ "platformOrigin" \in variables <=> "platformOrigin" \in mutation.declares
          /\ variables \subseteq mutation.declares

(* C24: when an interrupt ends send_message, the adoption of the thread id and
   the append of the request id of the dispatch in progress have both taken
   effect or neither: the thread id has not changed with the history unchanged. *)
C24_NoTornUpdate ==
    [][pc' = "interrupted"
        => ~(thread_id' # thread_id /\ request_ids' = request_ids)]_vars

(* C27: chat_completions calls the external API at most once, and only for a
   body whose messages validate and end with a message of role "user"; a last
   message of another role gives 400 and a body that does not validate 422, both
   without an external call; every request ends with 200, 400, 422 or 500. *)
C27_ValidatesBeforeForwarding ==
    (args.fn = "chat_completions" /\ value # <<>>)
      => LET body == args.body
             out == value[1]
             valid == /\ body.has_messages
                      /\ \A k \in DOMAIN body.messages :
                           /\ body.messages[k].role # None
                           /\ body.messages[k].content # "missing"
             last_is_user == /\ body.messages # <<>>
                             /\ body.messages[Len(body.messages)].role = "user"
         IN  /\ out.external_calls <= 1
             /\ out.external_calls = 1 => valid /\ last_is_user
             /\ (valid /\ body.messages # <<>> /\ ~last_is_user)
                  => out.outcome = "400" /\ out.external_calls = 0
             /\ ~valid => out.outcome = "422" /\ out.external_calls = 0
             /\ out.outcome \in {"200", "400", "422", "500"}

====
